---- MODULE Spec2Model ----
(***************************************************************************)
(* Model of llama_stack/providers/remote/inference/nvidia/_openai_utils.py *)
(*                                                                         *)
(*  - convert_openai_chat_completion_stream: an async generator, modelled  *)
(*    as a coroutine with a program counter.  The consumer resumes it with *)
(*    Request (__anext__); it runs until it suspends at a yield, raises or *)
(*    returns.  Every variable of the generator is indexed by invocation,  *)
(*    so that two invocations can be interleaved.                          *)
(*  - convert_chat_completion_request: a pure function, applied by the     *)
(*    action Convert to a request drawn in InitRequest.                    *)
(*                                                                         *)
(* Python's None is the string None below.  The logprobs field of a chunk  *)
(* is copied into the event by a pure mapper and is read by none of the    *)
(* properties; it is left out of chunks and events.                        *)
(***************************************************************************)
EXTENDS Integers, Sequences, FiniteSets, TLC

VARIABLES
    stream,       \* [inst -> the upstream sequence of chunks]
    pos,          \* [inst -> number of chunks pulled from upstream so far]
    pc,           \* [inst -> position of the generator]
    stop_reason,  \* [inst -> the local stop_reason]
    started,      \* [inst -> has event_type yielded its "start" already]
    events,       \* [inst -> the events handed to the consumer, in order]
    obs,          \* [inst -> per event: chunks pulled at that time, source chunk]
    requested,    \* [inst -> number of __anext__ calls of the consumer]
    warns,        \* [inst -> warnings.warn messages of the generator]
    request,      \* the ChatCompletionRequest given to the request mapper
    payload,      \* the dictionary it returned (NoPayload before the call)
    rwarns,       \* warnings.warn messages of the request mapper
    rpc           \* "ready" before the request mapper is called, "returned" after

vars == <<stream, pos, pc, stop_reason, started, events, obs, requested, warns,
          request, payload, rwarns, rpc>>

streamVars == <<stream, pos, pc, stop_reason, started, events, obs, requested, warns>>
requestVars == <<request, payload, rwarns, rpc>>

None == "<None>"

\* ---------------------------------------------------------------- bounds
MaxChunks == 2
MaxConcChunks == 2
MaxExtra == 1

Insts == {1, 2}

\* ---------------------------------------------------------------- inputs
Good == [id |-> "1", function |-> [name |-> "f", arguments |-> "{}"]]
Good2 == [id |-> "2", function |-> [name |-> "g", arguments |-> "{\"x\":1}"]]
Bad == [id |-> "3", function |-> [name |-> "h", arguments |-> "{oops"]]

Contents == {None, "", "Hel"}
ToolCallLists == {<<Good>>, <<Bad>>, <<Good, Bad>>, <<Good, Good2>>}
FinishReasons == {None, "stop", "length", "tool_calls", "content_filter"}

\* delta.tool_calls None and [] are both the empty list here (both are falsy
\* and both convert to []).
Chunks ==
    {[content |-> c, tool_calls |-> <<>>, finish_reason |-> f] :
        c \in Contents, f \in FinishReasons}
    \cup
    {[content |-> c, tool_calls |-> t, finish_reason |-> f] :
        c \in Contents, t \in ToolCallLists, f \in {None, "tool_calls"}}

ConcChunks ==
    { [content |-> "Hel", tool_calls |-> <<>>, finish_reason |-> None],
      [content |-> None, tool_calls |-> <<>>, finish_reason |-> "length"],
      [content |-> "Hel", tool_calls |-> <<Good>>, finish_reason |-> "tool_calls"] }

SeqsUpTo(S, n) == UNION {[1..k -> S] : k \in 0..n}

\* ---------------------------------------------------------------- helpers
\* json.loads on the argument strings of the inputs: the parsed mapping as a
\* sequence of key/value records; any other string raises JSONDecodeError.
JsonValid(s) == s \in {"{}", "{\"x\":1}"}

JsonLoads(s) ==
    CASE s = "{}" -> <<>>
      [] s = "{\"x\":1}" -> <<[key |-> "x", value |-> 1]>>

\* bool(s) of an Optional[str]
TruthyStr(s) == s \notin {None, ""}

_convert_openai_finish_reason(finish_reason) ==
    CASE finish_reason = "stop" -> "end_of_turn"
      [] finish_reason = "length" -> "out_of_tokens"
      [] finish_reason = "tool_calls" -> "end_of_message"
      [] OTHER -> "end_of_turn"

\* a or b on Optional[StopReason]: a StopReason member is truthy, None is not
OrStopReason(a, b) == IF a # None THEN a ELSE b

\* stop_reason = _convert_openai_finish_reason(choice.finish_reason) or stop_reason
LatchStopReason(finish_reason, prev) ==
    OrStopReason(_convert_openai_finish_reason(finish_reason), prev)

\* the list comprehension parses the arguments of every entry
ConvertRaises(tool_calls) ==
    \E k \in 1..Len(tool_calls) : ~JsonValid(tool_calls[k].function.arguments)

_convert_openai_tool_calls(tool_calls) ==
    IF tool_calls = <<>> THEN <<>>
    ELSE [k \in 1..Len(tool_calls) |->
            [call_id |-> tool_calls[k].id,
             tool_name |-> tool_calls[k].function.name,
             arguments |-> JsonLoads(tool_calls[k].function.arguments)]]

\* next(event_type): the value yielded, and the generator's state afterwards
NextEventTypeAlwaysStart(g) == "start"

NextEventType(g) == IF g THEN "progress" ELSE "start"

AdvanceShared(g, i) == [j \in Insts |-> TRUE]

\* event_type is a local of the invocation
Advance(g, i) == [g EXCEPT ![i] = TRUE]

TextDelta(s) == [kind |-> "text", text |-> s]

ToolCallDelta(call) == [kind |-> "tool_call", content |-> call, parse_status |-> "success"]

Event(type, delta, sr) == [event_type |-> type, delta |-> delta, stop_reason |-> sr]

MultiWarning == "multiple tool calls found in a single delta, using the first, ignoring the rest"

\* ---------------------------------------------------------------- generator
Suspended == {"created", "at_content", "at_tool", "at_text", "at_complete"}
Running == {"loop", "emit_content", "tool", "emit_text", "emit_complete", "end"}
Terminal == {"done", "failed", "closed"}

\* the chunk bound by the async for
Cur(i) == stream[i][pos[i]]

\* where the body continues when the consumer resumes it
ResumePoint(p) ==
    CASE p = "created" -> "loop"
      [] p = "at_content" -> "tool"
      [] p = "at_tool" -> "loop"
      [] p = "at_text" -> "loop"
      [] p = "at_complete" -> "end"

\* how the body of the loop branches on the chunk
BranchNoContentFirst(c) ==
    IF c.tool_calls # <<>> THEN "tool" ELSE "emit_text"

Branch(c) ==
    IF c.tool_calls # <<>>
    THEN IF TruthyStr(c.content) THEN "emit_content" ELSE "tool"
    ELSE "emit_text"

\* the generator awaits upstream only when its body has reached the async for
CanPullAhead(i) == pc[i] \in {"loop", "at_content", "at_tool", "at_text"}

CanPull(i) == pc[i] = "loop"

\* the consumer calls __anext__ on a suspended generator
Request(i) ==
    /\ pc[i] \in Suspended
    /\ requested' = [requested EXCEPT ![i] = @ + 1]
    /\ pc' = [pc EXCEPT ![i] = ResumePoint(pc[i])]
    /\ UNCHANGED <<stream, pos, stop_reason, started, events, obs, warns, requestVars>>

\* async for: upstream delivers the next chunk
PullChunk(i) ==
    /\ CanPull(i)
    /\ pos[i] < Len(stream[i])
    /\ LET c == stream[i][pos[i] + 1] IN
        /\ pos' = [pos EXCEPT ![i] = @ + 1]
        /\ stop_reason' = [stop_reason EXCEPT
                              ![i] = LatchStopReason(c.finish_reason, @)]
        /\ pc' = [pc EXCEPT ![i] = Branch(c)]
    /\ UNCHANGED <<stream, started, events, obs, requested, warns, requestVars>>

\* async for: upstream is exhausted
Exhausted(i) ==
    /\ CanPull(i)
    /\ pos[i] = Len(stream[i])
    /\ pc' = [pc EXCEPT ![i] = "emit_complete"]
    /\ UNCHANGED <<stream, pos, stop_reason, started, events, obs, requested, warns, requestVars>>

Emit(i, e, from) ==
    /\ events' = [events EXCEPT ![i] = Append(@, e)]
    /\ obs' = [obs EXCEPT ![i] = Append(@, [pulled |-> pos[i], chunk |-> from])]

\* the content of a chunk that also has tool calls
YieldContent(i) ==
    /\ pc[i] = "emit_content"
    /\ Emit(i, Event(NextEventType(started[i]), TextDelta(Cur(i).content), None), pos[i])
    /\ started' = Advance(started, i)
    /\ pc' = [pc EXCEPT ![i] = "at_content"]
    /\ UNCHANGED <<stream, pos, stop_reason, requested, warns, requestVars>>

WarnMultiple(i) ==
    warns' = [warns EXCEPT ![i] =
                 IF Len(Cur(i).tool_calls) > 1 THEN Append(@, MultiWarning) ELSE @]

YieldToolCall(i) ==
    /\ pc[i] = "tool"
    /\ ~ConvertRaises(Cur(i).tool_calls)
    /\ WarnMultiple(i)
    /\ Emit(i, Event(NextEventType(started[i]),
                     ToolCallDelta(_convert_openai_tool_calls(Cur(i).tool_calls)[1]),
                     None), pos[i])
    /\ started' = Advance(started, i)
    /\ pc' = [pc EXCEPT ![i] = "at_tool"]
    /\ UNCHANGED <<stream, pos, stop_reason, requested, requestVars>>

\* json.loads raises inside _convert_openai_tool_calls, after next(event_type)
RaiseParseFailure(i) ==
    /\ pc[i] = "tool"
    /\ ConvertRaises(Cur(i).tool_calls)
    /\ WarnMultiple(i)
    /\ started' = Advance(started, i)
    /\ pc' = [pc EXCEPT ![i] = "failed"]
    /\ UNCHANGED <<stream, pos, stop_reason, events, obs, requested, requestVars>>

YieldText(i) ==
    /\ pc[i] = "emit_text"
    /\ Emit(i, Event(NextEventType(started[i]),
                     TextDelta(IF TruthyStr(Cur(i).content) THEN Cur(i).content ELSE ""),
                     None), pos[i])
    /\ started' = Advance(started, i)
    /\ pc' = [pc EXCEPT ![i] = "at_text"]
    /\ UNCHANGED <<stream, pos, stop_reason, requested, warns, requestVars>>

YieldComplete(i) ==
    /\ pc[i] = "emit_complete"
    /\ Emit(i, Event("complete", TextDelta(""), stop_reason[i]), 0)
    /\ pc' = [pc EXCEPT ![i] = "at_complete"]
    /\ UNCHANGED <<stream, pos, stop_reason, started, requested, warns, requestVars>>

\* the body returns: StopAsyncIteration
Finish(i) ==
    /\ pc[i] = "end"
    /\ pc' = [pc EXCEPT ![i] = "done"]
    /\ UNCHANGED <<stream, pos, stop_reason, started, events, obs, requested, warns, requestVars>>

\* __anext__ on a generator that returned or raised: StopAsyncIteration at once
RequestExhausted(i) ==
    /\ pc[i] \in {"done", "failed"}
    /\ requested[i] < Len(events[i]) + 1 + MaxExtra
    /\ requested' = [requested EXCEPT ![i] = @ + 1]
    /\ UNCHANGED <<stream, pos, pc, stop_reason, started, events, obs, warns, requestVars>>

\* the consumer stops iterating; the suspended generator is never resumed
Close(i) ==
    /\ pc[i] \in Suspended
    /\ pc' = [pc EXCEPT ![i] = "closed"]
    /\ UNCHANGED <<stream, pos, stop_reason, started, events, obs, requested, warns, requestVars>>

\* ---------------------------------------------------------------- request mapper
\* an Optional[T] field: some = FALSE is None
Absent(v) == [some |-> FALSE, val |-> v]
Present(v) == [some |-> TRUE, val |-> v]

\* the .value of an enum member
EnumValue(m) ==
    CASE m = "ToolChoice.auto" -> "auto"
      [] m = "ToolChoice.required" -> "required"
      [] m = "StopReason.end_of_turn" -> "end_of_turn"
      [] m = "StopReason.out_of_tokens" -> "out_of_tokens"

UserMessage == [role |-> "user", content |-> "hi"]
CompletionMessage ==
    [role |-> "assistant", content |-> "", stop_reason |-> "StopReason.end_of_turn"]
ToolResponseMessage == [role |-> "ipython", content |-> "42"]

WeatherTool == [tool_name |-> "get_weather"]

\* temperature, top_p and repetition_penalty are floats; they are only copied,
\* and stand here as hundredths
SamplingParams ==
    [strategy : {"greedy", "top_p", "top_k", "beam"},
     temperature : {0, 70},
     top_p : {95},
     top_k : {-2, -1, 0, 1, 5},
     repetition_penalty : {100, 120},
     max_tokens : {0, 16}]

Requests ==
    [model : {"meta/llama-3.1-8b-instruct"},
     messages : {<<UserMessage>>, <<UserMessage, CompletionMessage, ToolResponseMessage>>},
     stream : BOOLEAN,
     tools : {Absent(<<>>), Present(<<>>), Present(<<WeatherTool>>)},
     tool_choice : {None, "ToolChoice.auto", "ToolChoice.required"},
     logprobs : {Absent([top_k |-> 0]), Present([top_k |-> 3])},
     sampling_params :
        {Absent([strategy |-> "greedy", temperature |-> 0, top_p |-> 95, top_k |-> 0,
                 repetition_penalty |-> 100, max_tokens |-> 0])}
        \cup {Present(sp) : sp \in SamplingParams}]

\* d.update(k=v)
Put(d, k, v) == [x \in DOMAIN d \cup {k} |-> IF x = k THEN v ELSE d[x]]

_convert_message(message) ==
    LET renamed == IF message.role = "ipython"
                   THEN [message EXCEPT !.role = "tool"]
                   ELSE message
    IN  IF "stop_reason" \in DOMAIN renamed
        THEN [renamed EXCEPT !.stop_reason = EnumValue(@)]
        ELSE renamed

BasePayload(r, n) ==
    [model |-> r.model,
     messages |-> [k \in 1..Len(r.messages) |-> _convert_message(r.messages[k])],
     stream |-> r.stream,
     n |-> n,
     extra_headers |-> ("User-Agent" :> "llama-stack: nvidia-inference-adapter")]

\* if request.tools: ... if request.tool_choice: ...
WithToolsChoiceAlone(p, r) ==
    LET p1 == IF r.tools.some /\ r.tools.val # <<>> THEN Put(p, "tools", r.tools.val) ELSE p
    IN  IF r.tool_choice # None THEN Put(p1, "tool_choice", EnumValue(r.tool_choice)) ELSE p1

WithTools(p, r) ==
    IF r.tools.some /\ r.tools.val # <<>>
    THEN LET p1 == Put(p, "tools", r.tools.val)
         IN  IF r.tool_choice # None
             THEN Put(p1, "tool_choice", EnumValue(r.tool_choice))
             ELSE p1
    ELSE p

WithLogprobs(p, r) ==
    IF r.logprobs.some
    THEN Put(Put(p, "logprobs", TRUE), "top_logprobs", r.logprobs.val.top_k)
    ELSE p

\* what the sampling branch puts into the payload itself
WithSampling(p, r) ==
    IF r.sampling_params.some
    THEN LET sp == r.sampling_params.val
             p1 == IF sp.max_tokens # 0 THEN Put(p, "max_tokens", sp.max_tokens) ELSE p
         IN  CASE sp.strategy = "top_p" -> Put(p1, "top_p", sp.top_p)
               [] sp.strategy = "greedy" -> Put(p1, "temperature", sp.temperature)
               [] OTHER -> p1
    ELSE p

\* what the sampling branch puts into nvext
SamplingNvextClamped(r) ==
    IF r.sampling_params.some
    THEN LET sp == r.sampling_params.val
             nv == Put(<<>>, "repetition_penalty", sp.repetition_penalty)
         IN  CASE sp.strategy = "top_p" -> Put(nv, "top_k", -1)
               [] sp.strategy = "top_k" ->
                    Put(nv, "top_k", IF sp.top_k # -1 /\ sp.top_k < 1 THEN 1 ELSE sp.top_k)
               [] sp.strategy = "greedy" -> Put(nv, "top_k", -1)
               [] OTHER -> nv
    ELSE <<>>

SamplingNvext(r) ==
    IF r.sampling_params.some
    THEN LET sp == r.sampling_params.val
             nv == Put(<<>>, "repetition_penalty", sp.repetition_penalty)
         IN  CASE sp.strategy = "top_p" -> Put(nv, "top_k", -1)
               [] sp.strategy = "top_k" -> Put(nv, "top_k", sp.top_k)
               [] sp.strategy = "greedy" -> Put(nv, "top_k", -1)
               [] OTHER -> nv
    ELSE <<>>

TopKWarning == "top_k must be -1 or >= 1"

SamplingWarnings(r) ==
    IF /\ r.sampling_params.some
       /\ r.sampling_params.val.strategy = "top_k"
       /\ r.sampling_params.val.top_k # -1
       /\ r.sampling_params.val.top_k < 1
    THEN <<TopKWarning>>
    ELSE <<>>

\* nvext is the dictionary placed under extra_body before it is filled in
convert_chat_completion_request(r, n) ==
    Put(WithSampling(WithLogprobs(WithTools(BasePayload(r, n), r), r), r),
        "extra_body", [nvext |-> SamplingNvext(r)])

Convert ==
    /\ rpc = "ready"
    /\ \E n \in {1, 2} : payload' = convert_chat_completion_request(request, n)
    /\ rwarns' = SamplingWarnings(request)
    /\ rpc' = "returned"
    /\ UNCHANGED <<request, streamVars>>

\* ---------------------------------------------------------------- specifications
NoRequest == "<no request>"
NoPayload == "<no payload>"

InitGen(ss) ==
    /\ stream = ss
    /\ pos = [i \in Insts |-> 0]
    /\ pc = [i \in Insts |-> "created"]
    /\ stop_reason = [i \in Insts |-> None]
    /\ started = [i \in Insts |-> FALSE]
    /\ events = [i \in Insts |-> <<>>]
    /\ obs = [i \in Insts |-> <<>>]
    /\ requested = [i \in Insts |-> 0]
    /\ warns = [i \in Insts |-> <<>>]

InitNoRequest ==
    /\ request = NoRequest
    /\ payload = NoPayload
    /\ rwarns = <<>>
    /\ rpc = "unused"

\* one invocation of the stream mapper, any stream
Init ==
    /\ \E s \in SeqsUpTo(Chunks, MaxChunks) :
          InitGen([i \in Insts |-> IF i = 1 THEN s ELSE <<>>])
    /\ InitNoRequest

Next ==
    \/ Request(1)
    \/ PullChunk(1)
    \/ Exhausted(1)
    \/ YieldContent(1)
    \/ YieldToolCall(1)
    \/ RaiseParseFailure(1)
    \/ YieldText(1)
    \/ YieldComplete(1)
    \/ Finish(1)
    \/ RequestExhausted(1)
    \/ Close(1)

Spec == Init /\ [][Next]_vars

\* two invocations of the stream mapper, interleaved
InitConc ==
    /\ \E ss \in [Insts -> SeqsUpTo(ConcChunks, MaxConcChunks)] : InitGen(ss)
    /\ InitNoRequest

NextConc ==
    \E i \in Insts :
        \/ Request(i)
        \/ PullChunk(i)
        \/ Exhausted(i)
        \/ YieldContent(i)
        \/ YieldToolCall(i)
        \/ YieldText(i)
        \/ YieldComplete(i)
        \/ Finish(i)
        \/ RequestExhausted(i)
        \/ Close(i)

SpecConc == InitConc /\ [][NextConc]_vars

\* the request mapper applied to any request
InitRequest ==
    /\ InitGen([i \in Insts |-> <<>>])
    /\ request \in Requests
    /\ payload = NoPayload
    /\ rwarns = <<>>
    /\ rpc = "ready"

NextRequest == Convert

SpecRequest == InitRequest /\ [][NextRequest]_vars

\* ---------------------------------------------------------------- properties
\* what the specification says one chunk contributes: its content first when it
\* has both tool calls and content, one ToolCallDelta of the first entry when it
\* has tool calls, else its content or ""
ClaimedDeltas(c) ==
    IF c.tool_calls # <<>>
    THEN (IF c.content \notin {None, ""} THEN <<[kind |-> "text", text |-> c.content]>> ELSE <<>>)
         \o <<[kind |-> "tool_call",
               content |-> [call_id |-> c.tool_calls[1].id,
                            tool_name |-> c.tool_calls[1].function.name,
                            arguments |-> JsonLoads(c.tool_calls[1].function.arguments)],
               parse_status |-> "success"]>>
    ELSE <<[kind |-> "text", text |-> IF c.content = None THEN "" ELSE c.content]>>

RECURSIVE ConcatDeltas(_, _)
ConcatDeltas(s, n) ==
    IF n = 0 THEN <<>> ELSE ConcatDeltas(s, n - 1) \o ClaimedDeltas(s[n])

RECURSIVE ConcatSources(_, _)
ConcatSources(s, n) ==
    IF n = 0 THEN <<>>
    ELSE ConcatSources(s, n - 1) \o [j \in 1..Len(ClaimedDeltas(s[n])) |-> n]

\* the chunks whose processing has run to its last yield
Processed(i) ==
    IF pc[i] \in {"at_tool", "at_text", "loop", "emit_complete", "at_complete", "end", "done"}
    THEN pos[i]
    ELSE IF pos[i] > 0 THEN pos[i] - 1 ELSE 0

EventTypes(evs) == [j \in 1..Len(evs) |-> evs[j].event_type]

Lifecycle(evs) ==
    /\ Len(evs) >= 2
    /\ evs[1].event_type = "start"
    /\ evs[Len(evs)].event_type = "complete"
    /\ \A j \in 2..(Len(evs) - 1) : evs[j].event_type = "progress"

\* C1: a stream consumed to exhaustion has emitted exactly start, progress*,
\* complete, whatever its length, the empty stream included.
C1_Lifecycle ==
    \A i \in Insts : pc[i] = "done" => Lifecycle(events[i])

RECURSIVE ClaimedLatch(_, _)
ClaimedLatch(s, n) ==
    IF n = 0 THEN None
    ELSE IF s[n].finish_reason \notin {None, ""}
         THEN _convert_openai_finish_reason(s[n].finish_reason)
         ELSE ClaimedLatch(s, n - 1)

\* C2: the latched stop reason is absent at first, is replaced only by a chunk
\* with a non-empty finish_reason and kept by every other chunk; the complete
\* event carries the mapped value of the latest finish_reason, or none.
C2_LatchedStopReason ==
    \A i \in Insts :
        /\ stop_reason[i] = ClaimedLatch(stream[i], pos[i])
        /\ \A j \in 1..Len(events[i]) :
              events[i][j].event_type = "complete"
                  => events[i][j].stop_reason = ClaimedLatch(stream[i], Len(stream[i]))

HasNoToolCalls(s) == \A k \in 1..Len(s) : s[k].tool_calls = <<>>

ToolsGiven(r) == r.tools.some /\ r.tools.val # <<>>

\* C4: the payload has tool_choice only if it has tools; tool_choice without
\* tools gives neither key, tools without tool_choice gives tools alone.
C4_ToolChoiceOnlyWithTools ==
    rpc = "returned" =>
        /\ "tool_choice" \in DOMAIN payload => "tools" \in DOMAIN payload
        /\ request.tool_choice # None /\ ~ToolsGiven(request)
              => {"tools", "tool_choice"} \cap DOMAIN payload = {}
        /\ ToolsGiven(request) /\ request.tool_choice = None
              => "tools" \in DOMAIN payload /\ "tool_choice" \notin DOMAIN payload

C4_Witness ==
    /\ rpc = "returned"
    /\ request.tool_choice = "ToolChoice.required"
    /\ ~ToolsGiven(request)
    /\ "tools" \notin DOMAIN payload

Overrides == {"top_p", "temperature"}

\* C5: with sampling parameters, nvext.repetition_penalty is set and: top_p
\* gives nvext.top_k = -1 and top_p; top_k gives the request's top_k as it is,
\* with a warning exactly when it is neither -1 nor >= 1; greedy gives
\* nvext.top_k = -1 and temperature; any other strategy adds none of them.
C5_SamplingBranches ==
    rpc = "returned" /\ request.sampling_params.some =>
        LET sp == request.sampling_params.val
            nv == payload.extra_body.nvext
        IN  /\ nv.repetition_penalty = sp.repetition_penalty
            /\ sp.strategy = "top_p" =>
                  /\ nv.top_k = -1
                  /\ payload.top_p = sp.top_p
                  /\ Overrides \cap DOMAIN payload = {"top_p"}
            /\ sp.strategy = "top_k" =>
                  /\ nv.top_k = sp.top_k
                  /\ Overrides \cap DOMAIN payload = {}
            /\ sp.strategy = "greedy" =>
                  /\ nv.top_k = -1
                  /\ payload.temperature = sp.temperature
                  /\ Overrides \cap DOMAIN payload = {"temperature"}
            /\ sp.strategy \notin {"top_p", "top_k", "greedy"} =>
                  /\ "top_k" \notin DOMAIN nv
                  /\ Overrides \cap DOMAIN payload = {}
            /\ rwarns # <<>> <=>
                  sp.strategy = "top_k" /\ ~(sp.top_k = -1 \/ sp.top_k >= 1)

C5_Witness ==
    /\ rpc = "returned"
    /\ request.sampling_params.some
    /\ request.sampling_params.val.strategy = "top_k"
    /\ request.sampling_params.val.top_k = 0
    /\ payload.extra_body.nvext.top_k = 0
    /\ rwarns = <<TopKWarning>>

\* the first chunk whose first tool-call entry has arguments that do not parse
FirstMalformedUsed(s) ==
    LET M == {k \in 1..Len(s) :
                 /\ s[k].tool_calls # <<>>
                 /\ ~JsonValid(s[k].tool_calls[1].function.arguments)}
    IN  IF M = {} THEN 0 ELSE CHOOSE k \in M : \A m \in M : k <= m

\* C6: when chunk m is the malformed one (the arguments it uses do not parse),
\* the events of the chunks before m are delivered as for a well-formed stream,
\* the failure is raised when chunk m is processed, and nothing of a later
\* chunk and no complete event is emitted.
C6_FailsAtMalformedChunk ==
    \A i \in Insts :
        LET m == FirstMalformedUsed(stream[i]) IN
        m > 0 =>
            /\ pc[i] = "failed" =>
                  /\ pos[i] = m
                  /\ LET D == ConcatDeltas(stream[i], m - 1)
                     IN  /\ Len(events[i]) >= Len(D)
                         /\ \A j \in 1..Len(D) : events[i][j].delta = D[j]
            /\ \A j \in 1..Len(events[i]) :
                  /\ events[i][j].event_type # "complete"
                  /\ obs[i][j].chunk <= m

\* C7: a delta with several tool-call entries gives a warning and one
\* ToolCallDelta of the first entry, and fails only if the first entry does:
\* what the other entries hold makes no difference.
C7_OnlyFirstEntryMatters ==
    \A i \in Insts :
        pos[i] > 0 /\ Len(Cur(i).tool_calls) > 1 =>
            /\ pc[i] = "failed" => ~JsonValid(Cur(i).tool_calls[1].function.arguments)
            /\ pc[i] = "at_tool" =>
                  /\ warns[i] # <<>>
                  /\ events[i][Len(events[i])].delta = ClaimedDeltas(Cur(i))[Len(ClaimedDeltas(Cur(i)))]

\* every event of the chunk pulled last has been handed to the consumer
AllHanded(i) ==
    \/ pos[i] = 0
    \/ Cardinality({j \in 1..Len(obs[i]) : obs[i][j].chunk = pos[i]})
          = Len(ClaimedDeltas(stream[i][pos[i]]))

\* C8: no read-ahead: a chunk is pulled only while a request of the consumer
\* is being served, and only after every event of the chunk before it was
\* handed over; the chunks pulled never outnumber the events requested, and a
\* consumer that has stopped causes no further pull.
C8_NoReadAhead ==
    /\ [](\A i \in Insts : pos[i] <= requested[i])
    /\ [][\A i \in Insts :
              pos'[i] # pos[i] =>
                  /\ pc[i] \in Running
                  /\ requested[i] > Len(events[i])
                  /\ pos'[i] = pos[i] + 1
                  /\ AllHanded(i)]_vars

C8_Witness ==
    \E i \in Insts :
        /\ pc[i] = "closed"
        /\ pos[i] = 1
        /\ Len(stream[i]) = 2
        /\ Len(events[i]) = 2
        /\ requested[i] = 2

RECURSIVE AloneStop(_, _)
AloneStop(s, n) ==
    IF n = 0 THEN None ELSE LatchStopReason(s[n].finish_reason, AloneStop(s, n - 1))

\* the events of one invocation running by itself over s
AloneEvents(s) ==
    LET D == ConcatDeltas(s, Len(s))
    IN  [j \in 1..Len(D) |-> Event(IF j = 1 THEN "start" ELSE "progress", D[j], None)]
        \o <<Event("complete", TextDelta(""), AloneStop(s, Len(s)))>>

IsPrefix(a, b) == Len(a) <= Len(b) /\ \A j \in 1..Len(a) : a[j] = b[j]

\* AloneEvents is what a single invocation emits (checked under Spec)
AloneIsSingleRun ==
    pc[1] = "done" => events[1] = AloneEvents(stream[1])

\* C10: two interleaved invocations each emit the events they emit alone:
\* their own start event, their own deltas, their own final stop_reason.
C10_Isolation ==
    \A i \in Insts :
        /\ IsPrefix(events[i], AloneEvents(stream[i]))
        /\ pc[i] = "done" => events[i] = AloneEvents(stream[i])

C10_Witness ==
    /\ pc[1] = "done"
    /\ pc[2] = "done"
    /\ Len(events[1]) = 3
    /\ Len(events[2]) = 4
    /\ events[1][3].stop_reason # events[2][4].stop_reason
    /\ events[1][1].event_type = "start"
    /\ events[2][1].event_type = "start"

====
